---- MODULE Spec2Model ----
(***************************************************************************)
(* Priority-playlist scheduling and blocking logic of the AIMP radio       *)
(* automation: ScheduleManager (src/modules/schedule_manager.py),          *)
(* BlockManager (src/modules/block_manager.py) and the two polling loops   *)
(* of src/main.py that drive the shared `schedule` job registry.           *)
(*                                                                         *)
(* Time is scaled: the clock `now` counts ticks, a day has DayLen ticks    *)
(* and the time-of-day string "0h:00" denotes tick h of a day.  Day 0 is a *)
(* Friday, so day 1 is a Saturday.                                         *)
(***************************************************************************)
EXTENDS Integers, Sequences, FiniteSets, TLC

VARIABLES
    now,                    \* datetime.now(), in ticks
    jobs,                   \* schedule.jobs: the shared job registry (a list)
    next_id,                \* identity of the next Job object created
    priority_tasks,         \* ScheduleManager.priority_tasks (dict task_id -> task)
    is_priority_playing,    \* ScheduleManager.is_priority_playing
    current_priority_task,  \* ScheduleManager.current_priority_task
    priority_end_time,      \* ScheduleManager.priority_end_time
    is_loaded,              \* ScheduleManager.is_loaded
    blocks,                 \* the "blocks" list of blocks.json
    pc,                     \* position of each polling thread
    cur,                    \* the job each polling thread is running
    queue,                  \* runnable jobs a polling thread still has to run
    player,                 \* the playback state of the AIMP player
    api,                    \* history: the last control-surface call and its result
    backend,                \* the call to the backend in progress, or the last one
    req,                    \* the control-surface requests being served concurrently
    local,                  \* the played list, the playlist additions and the local fills
    song,                   \* the last candidate song processed and what became of it
    tracking                \* the now-playing loop: the track read, previous_title, the posts

vars == <<now, jobs, next_id, priority_tasks, is_priority_playing,
          current_priority_task, priority_end_time, is_loaded, blocks,
          pc, cur, queue, player, api, backend, req, local, song, tracking>>

other_vars == <<req, local, song, tracking>>
io_vars == <<backend, other_vars>>

----------------------------------------------------------------------------
(* Bounds of the model *)

DayLen == 3
MaxTime == 4
MaxAdds == 2
MaxBlockCalls == 2
GuardedAt == 1

(* check_playlist_status is registered with schedule.every(30).seconds; one
   tick stands for the monitor period. *)
MonitorPeriod == 1

Threads == {"ScheduleThread", "PrioritySchedulerThread"}

----------------------------------------------------------------------------
(* Dates, times of day and their string forms.  A string is a sequence of
   character codes: digits 0..9 and Colon, which sorts after every digit as
   ':' does in ASCII. *)

Colon == 10

DateOf(t) == t \div DayLen
TimeOf(t) == t % DayLen
At(d, h) == d * DayLen + h

(* datetime.weekday(): Monday is 0; day 0 of the model is a Friday *)
Weekday(t) == (DateOf(t) + 4) % 7

(* now.strftime("%H:%M") and now.strftime("%Y-%m-%d"): always zero-padded.
   Only the day-of-month digits of a date are kept. *)
StrfTime(t) == <<0, TimeOf(t), Colon, 0, 0>>
StrfDate(t) == <<0, DateOf(t)>>

(* datetime.strptime(s, "%H:%M") and (s, "%Y-%m-%d"): one-digit and
   two-digit fields are both accepted *)
ParseTime(s) == IF Len(s) = 5 THEN s[2] ELSE s[1]
ParseDate(s) == IF Len(s) = 2 THEN s[2] ELSE s[1]

(* Python's str <= str: lexicographic on character codes *)
RECURSIVE StrLeq(_, _)
StrLeq(s, t) ==
    IF s = <<>> THEN TRUE
    ELSE IF t = <<>> THEN FALSE
    ELSE IF Head(s) < Head(t) THEN TRUE
    ELSE IF Head(s) > Head(t) THEN FALSE
    ELSE StrLeq(Tail(s), Tail(t))

(* schedule's Job.at() for a daily job accepts only HH:MM or HH:MM:SS *)
ScheduleAtOK(s) == Len(s) = 5

Hours == 0 .. (DayLen - 1)
Days == 0 .. (MaxTime \div DayLen)
TimeStrings == {<<0, h, Colon, 0, 0>> : h \in Hours} \cup {<<h, Colon, 0, 0>> : h \in Hours}
DateStrings == {<<0, d>> : d \in Days} \cup {<<d>> : d \in Days}
PaddedTimes == {s \in TimeStrings : Len(s) = 5}
PaddedDates == {s \in DateStrings : Len(s) = 2}

NoTask == <<>>
None == -1

----------------------------------------------------------------------------
(* The job registry of the `schedule` library, as main.py and
   schedule_manager.py use it.  A job is
   [id, kind, task, at, next_run, dur, until]: kind "guarded" is a recurring
   action wrapped by _run_if_not_blocked, "trigger" the
   play_priority_playlist closure of a task (task, dur: the closure's
   task_id and total_duration), "monitor" a check_playlist_status closure,
   "block_start" and "block_end" the jobs tagged "block", "daily_blocks" the
   00:01 job that runs _schedule_daily_blocks.  until is the job's
   cancel_after (.until), None when it has none. *)

NoJob ==
    [id |-> 0, kind |-> "none", task |-> NoTask, at |-> 0, next_run |-> 0,
     dur |-> 0, until |-> None]

(* every().day.at(hh): today at hh when hh is still ahead, else tomorrow *)
NextRunDaily(at, t) ==
    IF at > TimeOf(t) THEN At(DateOf(t), at) ELSE At(DateOf(t) + 1, at)

(* Job._schedule_next_run after a run that ends at time t *)
NextRunOf(j, t) ==
    IF j.kind = "monitor" THEN t + MonitorPeriod ELSE NextRunDaily(j.at, t)

(* schedule.cancel_job: no-op when the job is not registered *)
CancelJob(js, id) == SelectSeq(js, LAMBDA j : j.id # id)

Reschedule(js, id, t) ==
    [i \in DOMAIN js |->
        IF js[i].id = id THEN [js[i] EXCEPT !.next_run = NextRunOf(js[i], t)] ELSE js[i]]

(* Job._is_overdue *)
Overdue(j, when) == j.until # None /\ when > j.until

(* the registry after a job's callback returned ret at time t: Job.run sets
   next_run and asks for cancellation when next_run is past cancel_after,
   Scheduler._run_job cancels on CancelJob *)
AfterRun(js, j, ret, t) ==
    IF ret = "CancelJob" \/ Overdue(j, NextRunOf(j, t))
    THEN CancelJob(js, j.id)
    ELSE Reschedule(js, j.id, t)

(* sorted(job for job in self.jobs if job.should_run): stable, by next_run *)
RECURSIVE InsertJob(_, _)
InsertJob(j, q) ==
    IF q = <<>> THEN <<j>>
    ELSE IF j.next_run < Head(q).next_run THEN <<j>> \o q
    ELSE <<Head(q)>> \o InsertJob(j, Tail(q))

RECURSIVE SortJobs(_)
SortJobs(js) ==
    IF js = <<>> THEN <<>>
    ELSE InsertJob(js[Len(js)], SortJobs(SubSeq(js, 1, Len(js) - 1)))

Runnable(js, t) == SortJobs(SelectSeq(js, LAMBDA j : t >= j.next_run))

----------------------------------------------------------------------------
(* BlockManager.is_blocked: string comparison of the stored fields with the
   formatted current date and time *)

BlockMatches(b, t) ==
    /\ b.date = StrfDate(t)
    /\ StrLeq(b.start_time, StrfTime(t))
    /\ StrLeq(StrfTime(t), b.end_time)

is_blocked(bs, t) == \E i \in DOMAIN bs : BlockMatches(bs[i], t)

----------------------------------------------------------------------------
(* Block jobs: _add_block_to_schedule, _schedule_daily_blocks.  .until is
   the block time plus one minute, which is less than a tick: the job is
   overdue at every tick after the block time. *)

Block(d, s, e) == [date |-> d, start_time |-> s, end_time |-> e]

BlockJob(id, kind, d, hhmm, t) ==
    [id |-> id, kind |-> kind, task |-> NoTask, at |-> ParseTime(hhmm),
     next_run |-> NextRunDaily(ParseTime(hhmm), t), dur |-> 0,
     until |-> At(ParseDate(d), ParseTime(hhmm))]

(* the job ids handed out so far: ids are given in the order of creation *)
NewId(js, id, js0) == id + (Len(js) - Len(js0))

(* _add_block_to_schedule at time t: a time string that Job.at() rejects
   raises, and the except clause ends the method there *)
AddBlockToSchedule(js, id, b, t) ==
    LET startDue == At(ParseDate(b.date), ParseTime(b.start_time)) > t
        endDue == At(ParseDate(b.date), ParseTime(b.end_time)) > t
        raised == startDue /\ ~ScheduleAtOK(b.start_time)
        withStart ==
            IF startDue /\ ~raised
            THEN Append(js, BlockJob(id, "block_start", b.date, b.start_time, t))
            ELSE js
    IN  IF ~raised /\ endDue /\ ScheduleAtOK(b.end_time)
        THEN Append(withStart,
                    BlockJob(NewId(withStart, id, js), "block_end", b.date, b.end_time, t))
        ELSE withStart

(* a clear that takes the jobs of the priority playlists for block jobs *)
ClearBlockJobs_AlsoPriorityJobs(js) ==
    SelectSeq(js, LAMBDA j : j.kind \notin {"block_start", "block_end", "trigger", "monitor"})

(* schedule.clear("block") *)
ClearBlockJobs(js) == SelectSeq(js, LAMBDA j : j.kind \notin {"block_start", "block_end"})

RECURSIVE AddTodaysBlocks(_, _, _, _)
AddTodaysBlocks(js, id, bs, t) ==
    IF bs = <<>> THEN js
    ELSE LET next == IF Head(bs).date = StrfDate(t)
                     THEN AddBlockToSchedule(js, id, Head(bs), t)
                     ELSE js
         IN  AddTodaysBlocks(next, NewId(next, id, js), Tail(bs), t)

(* _schedule_daily_blocks at time t *)
ScheduleDailyBlocks(js, id, bs, t) == AddTodaysBlocks(ClearBlockJobs(js), id, bs, t)

(* add_block_immediately at time t *)
AddBlockImmediately(js, id, b, t) ==
    IF b.date = StrfDate(t) THEN AddBlockToSchedule(js, id, b, t) ELSE js

----------------------------------------------------------------------------
(* Priority tasks *)

Dirs == {"a", "b", "empty", "missing", "file"}
ExistingDirs == {"a", "b", "empty", "file"}     \* os.path.exists(full_path)
ListableDirs == {"a", "b", "empty"}             \* os.listdir(full_path) succeeds

(* the endings of line 272: file.endswith(('.mp3', '.wav', '.m4a', '.webm')) *)
AudioExtensions == {"mp3", "wav", "m4a", "webm"}

(* an entry of os.listdir: the ending of its name, whether it is a
   subdirectory, and the length AudioFileClip reads from it, None when the
   length cannot be read *)
Entry(ext, isdir, len) == [ext |-> ext, isdir |-> isdir, len |-> len]

(* what os.listdir gives for each directory.  Files inside a subdirectory
   are not listed; a subdirectory is, under its own name. *)
Listing(dir) ==
    IF dir = "a"
    THEN <<Entry("mp3", FALSE, 1), Entry("txt", FALSE, 2), Entry("wav", FALSE, None),
           Entry("mp3", TRUE, None), Entry("", TRUE, None)>>
    ELSE IF dir = "b"
    THEN <<Entry("webm", FALSE, 0), Entry("m4a", FALSE, None), Entry("MP3", FALSE, 2)>>
    ELSE <<Entry("txt", FALSE, 1), Entry("", TRUE, None)>>

AudioDirs ==                                    \* holds a supported audio file
    {d \in ListableDirs : \E i \in DOMAIN Listing(d) : Listing(d)[i].ext \in AudioExtensions}

(* load_directory_playlist: a directory without audio files raises *)
LoadOutcome(dir) == IF dir \in AudioDirs THEN "ok" ELSE "ValueError"

(* a filter that takes every listed entry for an audio file *)
IsAudioFile_AnyName(e) == TRUE

(* line 272: the name ends in a supported extension *)
IsAudioFile(e) == e.ext \in AudioExtensions

(* PlaylistManager._get_song_duration: None when AudioFileClip raises *)
SongDuration(e) == IF e.isdir THEN None ELSE e.len

(* lines 270-278: total_duration, summed over the listing in its order *)
RECURSIVE TotalDuration(_)
TotalDuration(files) ==
    IF files = <<>> THEN 0
    ELSE (IF /\ IsAudioFile(Head(files))
             /\ SongDuration(Head(files)) # None
             /\ SongDuration(Head(files)) # 0
          THEN SongDuration(Head(files))
          ELSE 0) + TotalDuration(Tail(files))

(* the sum of the audio lengths of the directory's files, in ticks *)
DirDuration(dir) == TotalDuration(Listing(dir))

TaskId(dir, pd, pt) == <<dir, pd, pt>>
PlayDatetime(pd, pt) == At(ParseDate(pd), ParseTime(pt))

(* a variant of AddOutcome without the duplicate check of line 264 *)
AddOutcome_NoDuplicateCheck(dir, pd, pt, t, tasks) ==
    IF PlayDatetime(pd, pt) < t THEN "ValueError"
    ELSE IF dir \notin ExistingDirs THEN "ValueError"
    ELSE IF dir \notin ListableDirs THEN "OSError"
    ELSE IF ~ScheduleAtOK(pt) THEN "ScheduleValueError"
    ELSE "ok"

(* the outcome of add_priority_playlist, in the order of its statements *)
AddOutcome(dir, pd, pt, t, tasks) ==
    IF PlayDatetime(pd, pt) < t THEN "ValueError"
    ELSE IF TaskId(dir, pd, pt) \in DOMAIN tasks THEN "ValueError"
    ELSE IF dir \notin ExistingDirs THEN "ValueError"
    ELSE IF dir \notin ListableDirs THEN "OSError"
    ELSE IF ~ScheduleAtOK(pt) THEN "ScheduleValueError"
    ELSE "ok"

TriggerJob(id, dir, pd, pt, t) ==
    [id |-> id, kind |-> "trigger", task |-> TaskId(dir, pd, pt),
     at |-> ParseTime(pt), next_run |-> NextRunDaily(ParseTime(pt), t),
     dur |-> DirDuration(dir), until |-> None]

TaskRecord(id, dir, pd, pt) ==
    [job |-> id, directory |-> dir, play_datetime |-> PlayDatetime(pd, pt),
     duration |-> DirDuration(dir), playlist_name |-> dir]

(* a variant of AddJobs that registers the trigger before the directory is
   listed, so that a failed listing leaves the job behind *)
AddJobs_BeforeListing(js, id, dir, pd, pt, t, outcome) ==
    IF outcome \in {"ok", "OSError"} THEN Append(js, TriggerJob(id, dir, pd, pt, t)) ELSE js

(* the registry and the task dict after add_priority_playlist *)
AddJobs(js, id, dir, pd, pt, t, outcome) ==
    IF outcome = "ok" THEN Append(js, TriggerJob(id, dir, pd, pt, t)) ELSE js

(* a variant of AddTasks that never stores the task *)
AddTasks_NotStored(tasks, id, dir, pd, pt, outcome) == tasks

AddTasks(tasks, id, dir, pd, pt, outcome) ==
    IF outcome = "ok"
    THEN [k \in DOMAIN tasks \cup {TaskId(dir, pd, pt)} |->
            IF k = TaskId(dir, pd, pt) THEN TaskRecord(id, dir, pd, pt) ELSE tasks[k]]
    ELSE tasks

RemoveTask(tasks, k) == [x \in DOMAIN tasks \ {k} |-> tasks[x]]

(* get_priority_tasks: the snapshot returned to the control surface *)
get_priority_tasks ==
    {[task_id |-> k, directory |-> priority_tasks[k].directory,
      play_datetime |-> <<StrfDate(priority_tasks[k].play_datetime),
                          StrfTime(priority_tasks[k].play_datetime)>>,
      playlist_name |-> priority_tasks[k].playlist_name] : k \in DOMAIN priority_tasks}

----------------------------------------------------------------------------
(* The guards of _run_if_not_blocked.wrapper *)

PrioritySkips(prio) == prio

(* a variant of GuardsPass without the weekday guard of line 75 *)
GuardsPass_NoWeekday(blocked, weekday) == ~blocked

GuardsPass(blocked, weekday) ==
    IF ~blocked
    THEN (IF weekday < 5 THEN TRUE ELSE FALSE)
    ELSE FALSE

(* blocks.json as the process finds it at start *)
InitialBlocks ==
    {<<>>, <<Block(<<0, 0>>, <<0, 1, Colon, 0, 0>>, <<0, 1, Colon, 0, 0>>)>>}

(* a gate that does not compare the dates *)
GateOpen_AnyDate(today, play_date, loaded) == ~loaded

(* the conditions of play_priority_playlist, check_playlist_status and
   _cleanup_priority_task *)
GateOpen(today, play_date, loaded) == today = play_date /\ ~loaded

Superseded(playing, task, current) == ~playing \/ task # current

CleanupJobs(js, id) == CancelJob(js, id)

ResetLoaded(loaded) == FALSE

----------------------------------------------------------------------------
(* State after construction and setup_schedules: the 00:01 job, one guarded
   recurring job and the jobs of today's blocks are registered, every flag
   is as __init__ leaves it, both polling threads are about to call
   run_pending. *)

DailyBlocksJob ==
    [id |-> 1, kind |-> "daily_blocks", task |-> NoTask, at |-> 0,
     next_run |-> NextRunDaily(0, 0), dur |-> 0, until |-> None]

GuardedJob ==
    [id |-> 2, kind |-> "guarded", task |-> NoTask, at |-> GuardedAt,
     next_run |-> NextRunDaily(GuardedAt, 0), dur |-> 0, until |-> None]

setup_schedules(bs) == ScheduleDailyBlocks(<<DailyBlocksJob, GuardedJob>>, 3, bs, 0)

(* RequestManager: `for attempt in range(3)` *)
MaxAttempts == 3

(* what one attempt meets: status 200 with a body that decodes as JSON,
   status 200 with a body that does not, another status, or an exception
   of requests.get / requests.post *)
Outcomes == {"200", "200_undecodable", "500", "raise"}

BackendCalls == {"fetch_songs_from_backend", "post_playing_song"}

(* the attempt returns from the function: fetch_songs_from_backend returns
   response.json(), which raises inside the try for a body that does not
   decode; post_playing_song does not read the body *)
Returns(fn, outcome) ==
    IF fn = "fetch_songs_from_backend"
    THEN outcome = "200"
    ELSE outcome \in {"200", "200_undecodable"}

(* the value returned by a successful attempt, and after the loop *)
Success(fn) == IF fn = "fetch_songs_from_backend" THEN "songs" ELSE "True"
Failure(fn) == IF fn = "fetch_songs_from_backend" THEN "None" ELSE "False"

(* a loop that makes one attempt more *)
LoopEnds_AfterFour(n) == n >= MaxAttempts + 1

(* range(3) is exhausted after n attempts *)
LoopEnds(n) == n >= MaxAttempts

NoBackendCall == [fn |-> "none", tries |-> <<>>, result |-> "none"]

(* one pass of the loop body, the attempt meeting `outcome` *)
AfterAttempt(b, outcome) ==
    [fn |-> b.fn, tries |-> Append(b.tries, outcome),
     result |-> IF Returns(b.fn, outcome) THEN Success(b.fn)
                ELSE IF LoopEnds(Len(b.tries) + 1) THEN Failure(b.fn)
                ELSE "running"]

(* the threads of Flask's development server that serve two requests at the
   same time, and a thread that serves none *)
Handlers == {"h1", "h2"}
NoRequest == [op |-> "none", pc |-> "idle", arg |-> <<>>, read |-> <<>>, job |-> 0,
              result |-> "none"]

(* the two callers that fill the playlist with local songs, each waiting to
   be called; the played list (played_songs.txt) is empty after the clearing
   at start-up, and `added` lists the add_song_to_playlist calls for local
   songs since the last clearing of the played list *)
Fills == {"update_playlist", "update_playlist_local"}
NoWorker == [pc |-> "idle", total |-> 0, tries |-> 0, song |-> "none", returned |-> "none"]
NoFill == [played |-> <<>>, added |-> <<>>, w |-> [f \in Fills |-> NoWorker]]
(* no candidate song has been processed yet *)
NoSong == [called |-> FALSE,
           in |-> [blacklisted |-> FALSE, download |-> "none", played |-> FALSE,
                   exists |-> FALSE, lyrics |-> "none", pl |-> 0, en |-> 0,
                   verdict |-> "None", move |-> "ok"],
           out |-> [downloaded |-> FALSE, profanity |-> "none", is_acceptable |-> FALSE,
                    moved |-> FALSE, added |-> FALSE, to_blacklist |-> FALSE,
                    result |-> FALSE]]
(* the now-playing loop before its first tick: previous_title = None, here
   the empty tuple, a title t being <<t>>; `seen` lists the titles the loop
   read and `posts` the titles it passed to post_playing_song *)
NotPlaying == [track |-> "", previous_title |-> <<>>, seen |-> <<>>, posts |-> <<>>,
               ticks |-> 0, result |-> "none"]

NoCall == [n |-> 0, op |-> "none", task |-> NoTask, play_datetime |-> 0, at |-> 0,
           fresh |-> FALSE, result |-> "none", arg |-> "none", sent |-> "none",
           body |-> <<>>]

Init ==
    /\ now = 0
    /\ blocks \in InitialBlocks
    /\ jobs = setup_schedules(blocks)
    /\ next_id = Len(jobs) + 1
    /\ priority_tasks = <<>>
    /\ is_priority_playing = FALSE
    /\ current_priority_task = NoTask
    /\ priority_end_time = None
    /\ is_loaded = FALSE
    /\ pc = [th \in Threads |-> "idle"]
    /\ cur = [th \in Threads |-> NoJob]
    /\ queue = [th \in Threads |-> <<>>]
    /\ player = "playing"
    /\ api = NoCall
    /\ backend = NoBackendCall
    /\ req = [h \in Handlers |-> NoRequest]
    /\ local = NoFill
    /\ song = NoSong
    /\ tracking = NotPlaying

sched_vars == <<priority_tasks, is_priority_playing, current_priority_task,
                priority_end_time, is_loaded>>

----------------------------------------------------------------------------
(* Time passes.  A tick is at least the monitor period of 30 seconds, while
   the loops poll every 1 and 5 seconds: before the next tick a sleeping
   thread has polled, and a thread is found between two statements only
   where the callback does long work (the wrapped task, the loading of the
   tracks with its sleep, the playlist refresh). *)

LongRunning == {"w_body", "act_load", "cleanup_resume"}

Tick ==
    /\ now < MaxTime
    /\ \A th \in Threads :
          \/ pc[th] = "idle" /\ Runnable(jobs, now) = <<>>
          \/ pc[th] \in LongRunning
    /\ now' = now + 1
    /\ UNCHANGED <<jobs, next_id, sched_vars, blocks, pc, cur, queue, api, io_vars, player>>

----------------------------------------------------------------------------
(* The control surface: POST /special/play -> add_priority_playlist.  The
   call runs to completion in one step. *)

add_priority_playlist(dir, pd, pt) ==
    LET outcome == AddOutcome(dir, pd, pt, now, priority_tasks) IN
    /\ jobs' = AddJobs(jobs, next_id, dir, pd, pt, now, outcome)
    /\ priority_tasks' = AddTasks(priority_tasks, next_id, dir, pd, pt, outcome)
    /\ next_id' = IF outcome = "ok" THEN next_id + 1 ELSE next_id
    /\ UNCHANGED <<now, is_priority_playing, current_priority_task,
                   priority_end_time, is_loaded, blocks, pc, cur, queue, player>>

(* the call, with its arguments and its result kept in `api` *)
Call(dir, pd, pt) ==
    [n |-> api.n + 1, op |-> "add", task |-> TaskId(dir, pd, pt),
     play_datetime |-> PlayDatetime(pd, pt), at |-> now,
     fresh |-> TaskId(dir, pd, pt) \notin DOMAIN priority_tasks,
     result |-> AddOutcome(dir, pd, pt, now, priority_tasks),
     arg |-> "none", sent |-> "none", body |-> <<>>]

----------------------------------------------------------------------------
(* The polling loops run_schedule and run_priority_scheduler: each calls
   schedule.run_pending() and sleeps.  run_pending takes the sorted list of
   the jobs that should run and runs them one after the other; a job's
   next_run is set only after its callback returned. *)

StartPc(j) ==
    CASE j.kind = "guarded" -> "w_check"
      [] j.kind = "trigger" -> "act_check"
      [] j.kind = "monitor" -> "mon_check"
      [] j.kind = "block_start" -> "blk_start"
      [] j.kind = "block_end" -> "blk_end"
      [] j.kind = "daily_blocks" -> "daily"

(* the thread calls the callback of the first job of q, or goes to sleep *)
Begin(th, q) ==
    IF q = <<>>
    THEN /\ pc' = [pc EXCEPT ![th] = "idle"]
         /\ cur' = [cur EXCEPT ![th] = NoJob]
         /\ queue' = [queue EXCEPT ![th] = <<>>]
    ELSE /\ pc' = [pc EXCEPT ![th] = StartPc(Head(q))]
         /\ cur' = [cur EXCEPT ![th] = Head(q)]
         /\ queue' = [queue EXCEPT ![th] = Tail(q)]

(* the callback of the thread's job returned ret, having left the registry js *)
Finish(th, js, ret) ==
    /\ jobs' = AfterRun(js, cur[th], ret, now)
    /\ Begin(th, queue[th])

run_pending(th) ==
    /\ pc[th] = "idle"
    /\ Runnable(jobs, now) # <<>>
    /\ Begin(th, Runnable(jobs, now))
    /\ UNCHANGED <<now, jobs, next_id, sched_vars, blocks, api, io_vars, player>>

----------------------------------------------------------------------------
(* _run_if_not_blocked.wrapper *)

(* line 69: if self.is_priority_playing: return *)
wrapper_priority(th) ==
    /\ pc[th] = "w_check"
    /\ IF PrioritySkips(is_priority_playing)
       THEN Finish(th, jobs, "None")
       ELSE /\ pc' = [pc EXCEPT ![th] = "w_guard"]
            /\ UNCHANGED <<jobs, cur, queue>>
    /\ UNCHANGED <<now, next_id, sched_vars, blocks, api, io_vars, player>>

(* lines 73-81: the block and weekday guards; the task is called or skipped *)
wrapper_guards(th) ==
    /\ pc[th] = "w_guard"
    /\ IF GuardsPass(is_blocked(blocks, now), Weekday(now))
       THEN /\ pc' = [pc EXCEPT ![th] = "w_body"]
            /\ UNCHANGED <<jobs, cur, queue>>
       ELSE Finish(th, jobs, "None")
    /\ UNCHANGED <<now, next_id, sched_vars, blocks, api, io_vars, player>>

(* line 76: the wrapped task runs and returns *)
wrapper_task(th) ==
    /\ pc[th] = "w_body"
    /\ Finish(th, jobs, "None")
    /\ UNCHANGED <<now, next_id, sched_vars, blocks, api, io_vars, player>>

----------------------------------------------------------------------------
(* play_priority_playlist, the trigger callback of a task *)

(* lines 281-283: the date check and the is_loaded gate *)
activation_gate(th) ==
    /\ pc[th] = "act_check"
    /\ IF GateOpen(DateOf(now), ParseDate(cur[th].task[2]), is_loaded)
       THEN /\ pc' = [pc EXCEPT ![th] = "act_set"]
            /\ UNCHANGED <<jobs, cur, queue>>
       ELSE Finish(th, jobs, "None")
    /\ UNCHANGED <<now, next_id, sched_vars, blocks, api, io_vars, player>>

(* lines 285-288: the flags are set *)
activation_flags(th) ==
    /\ pc[th] = "act_set"
    /\ is_loaded' = TRUE
    /\ is_priority_playing' = TRUE
    /\ current_priority_task' = cur[th].task
    /\ priority_end_time' = now + cur[th].dur
    /\ pc' = [pc EXCEPT ![th] = "act_load"]
    /\ UNCHANGED <<now, jobs, next_id, priority_tasks, blocks, cur, queue, api, io_vars, player>>

MonitorJob(id, task, t) ==
    [id |-> id, kind |-> "monitor", task |-> task, at |-> 0,
     next_run |-> t + MonitorPeriod, dur |-> 0, until |-> None]

(* an activation whose exception ends the polling loop of its thread *)
activation_load_LoopDies(th) ==
    /\ pc[th] = "act_load"
    /\ IF LoadOutcome(cur[th].task[1]) = "ok"
       THEN /\ Finish(th, Append(jobs, MonitorJob(next_id, cur[th].task, now)), "None")
            /\ next_id' = next_id + 1
            /\ player' = "playing"
       ELSE /\ pc' = [pc EXCEPT ![th] = "stopped"]
            /\ UNCHANGED <<jobs, next_id, player, cur, queue>>
    /\ UNCHANGED <<now, sched_vars, blocks, api, io_vars>>

(* lines 290-295: the tracks are loaded, playback starts and
   _schedule_playlist_check registers the monitor.  When
   load_directory_playlist raises, the exception leaves the callback, Job.run
   and run_pending: the job's next_run is not advanced, the jobs still queued
   are not run, and the loop of main.py logs the exception and polls again. *)
activation_load(th) ==
    /\ pc[th] = "act_load"
    /\ IF LoadOutcome(cur[th].task[1]) = "ok"
       THEN /\ Finish(th, Append(jobs, MonitorJob(next_id, cur[th].task, now)), "None")
            /\ next_id' = next_id + 1
            /\ player' = "playing"
       ELSE /\ Begin(th, <<>>)
            /\ UNCHANGED <<jobs, next_id, player>>
    /\ UNCHANGED <<now, sched_vars, blocks, api, io_vars>>

----------------------------------------------------------------------------
(* check_playlist_status, the monitor callback, and _cleanup_priority_task *)

(* lines 329-330 *)
monitor_guard(th) ==
    /\ pc[th] = "mon_check"
    /\ IF Superseded(is_priority_playing, cur[th].task, current_priority_task)
       THEN Finish(th, jobs, "CancelJob")
       ELSE /\ pc' = [pc EXCEPT ![th] = "mon_time"]
            /\ UNCHANGED <<jobs, cur, queue>>
    /\ UNCHANGED <<now, next_id, sched_vars, blocks, api, io_vars, player>>

(* lines 333-345: comparing with a priority_end_time of None raises a
   TypeError, which the except clause logs; the callback then returns None *)
monitor_time(th) ==
    /\ pc[th] = "mon_time"
    /\ IF priority_end_time # None /\ now >= priority_end_time
       THEN /\ pc' = [pc EXCEPT ![th] = "cleanup"]
            /\ UNCHANGED <<jobs, cur, queue>>
       ELSE Finish(th, jobs, "None")
    /\ UNCHANGED <<now, next_id, sched_vars, blocks, api, io_vars, player>>

(* line 361 of _cleanup_priority_task: if task_id in self.priority_tasks;
   without the record the method returns at once *)
cleanup_check(th) ==
    /\ pc[th] = "cleanup"
    /\ pc' = [pc EXCEPT ![th] =
                IF cur[th].task \in DOMAIN priority_tasks THEN "cleanup_body" ELSE "mon_skip"]
    /\ UNCHANGED <<now, jobs, next_id, sched_vars, blocks, cur, queue, api, io_vars, player>>

(* lines 362-368 of _cleanup_priority_task.  When the record has been deleted
   since line 361, the lookup of line 362 raises KeyError: the except clause
   of check_playlist_status logs it and the callback returns None. *)
cleanup_state(th) ==
    /\ pc[th] = "cleanup_body"
    /\ IF cur[th].task \in DOMAIN priority_tasks
       THEN /\ jobs' = CleanupJobs(jobs, priority_tasks[cur[th].task].job)
            /\ priority_tasks' = RemoveTask(priority_tasks, cur[th].task)
            /\ is_priority_playing' = FALSE
            /\ current_priority_task' = NoTask
            /\ priority_end_time' = None
            /\ pc' = [pc EXCEPT ![th] = "cleanup_resume"]
            /\ UNCHANGED <<cur, queue>>
       ELSE /\ Finish(th, jobs, "None")
            /\ UNCHANGED <<priority_tasks, is_priority_playing,
                           current_priority_task, priority_end_time>>
    /\ UNCHANGED <<now, next_id, is_loaded, blocks, api, io_vars, player>>

(* lines 370-372: update_playlist and play_song, then cleanup returns *)
cleanup_resume(th) ==
    /\ pc[th] = "cleanup_resume"
    /\ pc' = [pc EXCEPT ![th] = "mon_reset"]
    /\ player' = "playing"
    /\ UNCHANGED <<now, jobs, next_id, sched_vars, blocks, cur, queue, api, io_vars>>

(* lines 338-339: is_loaded is reset and the monitor cancels itself; the
   thread is at "mon_skip" when cleanup found no record of the task *)
monitor_reset(th) ==
    /\ pc[th] \in {"mon_reset", "mon_skip"}
    /\ is_loaded' = ResetLoaded(is_loaded)
    /\ Finish(th, jobs, "CancelJob")
    /\ UNCHANGED <<now, next_id, priority_tasks, is_priority_playing,
                   current_priority_task, priority_end_time, blocks, api, io_vars, player>>

----------------------------------------------------------------------------
(* The block jobs.  Job.run returns CancelJob without calling the callback
   when the job is overdue. *)

(* lines 209-211: if self.aimp_controller.is_playing(): pause_song() *)
Paused(state) == IF state = "playing" THEN "paused" ELSE state

(* an end-action that does not look at is_priority_playing *)
Resumed_Always(state, prio) == "playing"

(* lines 223-225: if not self.is_priority_playing: play_song() *)
Resumed(state, prio) == IF ~prio THEN "playing" ELSE state

(* _start_block_period: pauses the player if it is playing *)
start_block_period(th) ==
    /\ pc[th] = "blk_start"
    /\ Finish(th, jobs, IF Overdue(cur[th], now) THEN "CancelJob" ELSE "None")
    /\ player' = IF Overdue(cur[th], now) THEN player ELSE Paused(player)
    /\ UNCHANGED <<now, next_id, sched_vars, blocks, api, io_vars>>

(* _end_block_period: resumes playback unless a priority playlist plays *)
end_block_period(th) ==
    /\ pc[th] = "blk_end"
    /\ Finish(th, jobs, IF Overdue(cur[th], now) THEN "CancelJob" ELSE "None")
    /\ player' = IF Overdue(cur[th], now) THEN player ELSE Resumed(player, is_priority_playing)
    /\ UNCHANGED <<now, next_id, sched_vars, blocks, api, io_vars>>

(* the 00:01 job: _schedule_daily_blocks *)
schedule_daily_blocks(th) ==
    /\ pc[th] = "daily"
    /\ Finish(th, ScheduleDailyBlocks(jobs, next_id, blocks, now), "None")
    /\ next_id' = NewId(ScheduleDailyBlocks(jobs, next_id, blocks, now), next_id,
                        ClearBlockJobs(jobs))
    /\ UNCHANGED <<now, sched_vars, blocks, api, io_vars, player>>

----------------------------------------------------------------------------
(* The control surface: POST /block/add and /block/remove *)

(* an add_block without the membership test of line 79 *)
add_block_NoDuplicateCheck(d, s, e) ==
    /\ jobs' = AddBlockImmediately(jobs, next_id, Block(d, s, e), now)
    /\ next_id' = NewId(jobs', next_id, jobs)
    /\ blocks' = Append(blocks, Block(d, s, e))
    /\ UNCHANGED <<now, sched_vars, pc, cur, queue, player>>

(* BlockManager.add_block: returns False for a block already stored, else
   registers today's block jobs at once, stores the block and returns True *)
add_block(d, s, e) ==
    /\ IF \E i \in DOMAIN blocks : blocks[i] = Block(d, s, e)
       THEN UNCHANGED <<jobs, next_id, blocks>>
       ELSE /\ jobs' = AddBlockImmediately(jobs, next_id, Block(d, s, e), now)
            /\ next_id' = NewId(jobs', next_id, jobs)
            /\ blocks' = Append(blocks, Block(d, s, e))
    /\ UNCHANGED <<now, sched_vars, pc, cur, queue, player>>

(* list.remove: the first equal element *)
RemoveFirst(bs, b) ==
    LET i == CHOOSE k \in DOMAIN bs : bs[k] = b /\ \A m \in 1 .. (k - 1) : bs[m] # b
    IN  SubSeq(bs, 1, i - 1) \o SubSeq(bs, i + 1, Len(bs))

(* BlockManager.remove_block: returns False for a block that is not stored;
   the registry is left alone *)
remove_block(d, s, e) ==
    /\ IF \E i \in DOMAIN blocks : blocks[i] = Block(d, s, e)
       THEN blocks' = RemoveFirst(blocks, Block(d, s, e))
       ELSE UNCHANGED blocks
    /\ UNCHANGED <<now, jobs, next_id, sched_vars, pc, cur, queue, player>>

----------------------------------------------------------------------------

(* the requests made while the polling loops run: two tasks for day 0, the
   second one due when the first one, of length 0, is being cleaned up, and
   a task for a directory without audio files *)
Requests ==
    {<<"b", <<0, 0>>, <<0, 1, Colon, 0, 0>>>>, <<"a", <<0, 0>>, <<0, 2, Colon, 0, 0>>>>,
     <<"empty", <<0, 0>>, <<0, 1, Colon, 0, 0>>>>}

SchedulePriority ==
    \E r \in Requests :
        /\ add_priority_playlist(r[1], r[2], r[3])
        /\ UNCHANGED <<api, io_vars>>

Next ==
    \/ Tick
    \/ SchedulePriority
    \/ \E th \in Threads : run_pending(th)
    \/ \E th \in Threads : wrapper_priority(th)
    \/ \E th \in Threads : wrapper_guards(th)
    \/ \E th \in Threads : wrapper_task(th)
    \/ \E th \in Threads : activation_gate(th)
    \/ \E th \in Threads : activation_flags(th)
    \/ \E th \in Threads : activation_load(th)
    \/ \E th \in Threads : monitor_guard(th)
    \/ \E th \in Threads : monitor_time(th)
    \/ \E th \in Threads : cleanup_check(th)
    \/ \E th \in Threads : cleanup_state(th)
    \/ \E th \in Threads : cleanup_resume(th)
    \/ \E th \in Threads : monitor_reset(th)
    \/ \E th \in Threads : start_block_period(th)
    \/ \E th \in Threads : end_block_period(th)
    \/ \E th \in Threads : schedule_daily_blocks(th)

Spec == Init /\ [][Next]_vars

----------------------------------------------------------------------------
(* The priority-playlist request alone, over every directory and both
   spellings of the date and the time *)

(* time passes between two requests; the polling loops are left out *)
Elapse ==
    /\ now < MaxTime
    /\ now' = now + 1
    /\ UNCHANGED <<jobs, next_id, sched_vars, blocks, pc, cur, queue, api, io_vars, player>>

(* the dates and times of the requests: every day zero-padded, day 0 also
   unpadded, and tick 1 of a day in both spellings; as the clock advances
   they give past, present and future play_datetimes *)
AddDateStrings == PaddedDates \cup {<<0>>}
AddTimeStrings == {s \in TimeStrings : ParseTime(s) = 1}

ScheduleRequest ==
    \E dir \in Dirs, pd \in AddDateStrings, pt \in AddTimeStrings :
        /\ api.n < MaxAdds
        /\ add_priority_playlist(dir, pd, pt)
        /\ api' = Call(dir, pd, pt)
        /\ UNCHANGED io_vars

NextAdd == Elapse \/ ScheduleRequest

SpecAdd == Init /\ [][NextAdd]_vars

----------------------------------------------------------------------------
(* The block store alone, over every spelling of the date and the times *)

BlockDateStrings == DateStrings \ {<<1>>}
BlockStartStrings == {s \in TimeStrings : ParseTime(s) = 1}
BlockEndStrings == {s \in TimeStrings : ParseTime(s) = 1 \/ s = <<0, 2, Colon, 0, 0>>}

BlockCall(op, result) ==
    [n |-> api.n + 1, op |-> op, task |-> NoTask, play_datetime |-> 0, at |-> now,
     fresh |-> FALSE, result |-> IF result THEN "True" ELSE "False",
     arg |-> "none", sent |-> "none", body |-> <<>>]

AddBlockRequest ==
    \E d \in BlockDateStrings, s \in BlockStartStrings, e \in BlockEndStrings :
        /\ api.n < MaxBlockCalls
        /\ add_block(d, s, e)
        /\ api' = BlockCall("add_block", blocks' # blocks)
        /\ UNCHANGED io_vars

RemoveBlockRequest ==
    \E d \in BlockDateStrings, s \in BlockStartStrings, e \in BlockEndStrings :
        /\ api.n < MaxBlockCalls
        /\ remove_block(d, s, e)
        /\ api' = BlockCall("remove_block", blocks' # blocks)
        /\ UNCHANGED io_vars

(* the 00:01 job, run by a polling thread as soon as it is due *)
DailyDerivation ==
    \E i \in DOMAIN jobs :
        /\ jobs[i].kind = "daily_blocks"
        /\ now >= jobs[i].next_run
        /\ jobs' = AfterRun(ScheduleDailyBlocks(jobs, next_id, blocks, now), jobs[i], "None", now)
        /\ next_id' = NewId(ScheduleDailyBlocks(jobs, next_id, blocks, now), next_id,
                            ClearBlockJobs(jobs))
        /\ UNCHANGED <<now, sched_vars, blocks, pc, cur, queue, player, api, io_vars>>

NextBlocks == Elapse \/ AddBlockRequest \/ RemoveBlockRequest \/ DailyDerivation

SpecBlocks == Init /\ [][NextBlocks]_vars

----------------------------------------------------------------------------
(* The control surface: POST /command and GET /block/list, over a block
   store that add and remove requests fill and empty *)

(* the values of the ToDO field: the three commands, another word, the empty
   string and no field at all (data.get returns None) *)
CommandValues == {"play", "pause", "next", "stop", "", "None"}

(* `if command and self.command_handler`: command_handler is the list that
   set_context installs *)
Truthy(command) == command \notin {"", "None"}

(* CommandServer._handle_command: the call it makes to the player *)
CommandSent(command) ==
    IF command = "play" THEN "play"
    ELSE IF command = "pause" THEN "pause"
    ELSE IF command = "next" THEN "next"
    ELSE "none"

(* CommandServer.handle_command: the status of the response *)
CommandStatus(command) == IF Truthy(command) THEN "200" ELSE "400"

(* the player after play_song, pause_song or skip_song *)
PlayerAfter(state, sent) ==
    IF sent = "play" THEN "playing"
    ELSE IF sent = "pause" THEN "paused"
    ELSE state

SurfaceCall(op, arg, status, sent, body) ==
    [n |-> api.n + 1, op |-> op, task |-> NoTask, play_datetime |-> 0, at |-> now,
     fresh |-> FALSE, result |-> status, arg |-> arg, sent |-> sent, body |-> body]

handle_command(command) ==
    /\ api' = SurfaceCall("command", command, CommandStatus(command),
                          IF Truthy(command) THEN CommandSent(command) ELSE "none", <<>>)
    /\ player' = PlayerAfter(player, api'.sent)
    /\ UNCHANGED <<now, jobs, next_id, sched_vars, blocks, pc, cur, queue>>

CommandRequest ==
    \E command \in CommandValues :
        /\ api.n < MaxBlockCalls
        /\ handle_command(command)
        /\ UNCHANGED io_vars

(* CommandServer.list_blocks: the stored list, or an error for a list that
   is falsy *)
list_blocks ==
    /\ api' = IF blocks # <<>>
              THEN SurfaceCall("list_blocks", "none", "200", "none", blocks)
              ELSE SurfaceCall("list_blocks", "none", "400", "none", <<>>)
    /\ UNCHANGED <<now, jobs, next_id, sched_vars, blocks, pc, cur, queue, player>>

ListBlocksRequest ==
    /\ api.n < MaxBlockCalls
    /\ list_blocks
    /\ UNCHANGED io_vars

NextSurface == AddBlockRequest \/ RemoveBlockRequest \/ CommandRequest \/ ListBlocksRequest

SpecSurface == Init /\ [][NextSurface]_vars

----------------------------------------------------------------------------
(* The calls to the backend: fetch_songs_from_backend and post_playing_song,
   one attempt at a time *)

BackendCall ==
    \E fn \in BackendCalls :
        /\ backend.result # "running"
        /\ backend' = [fn |-> fn, tries |-> <<>>, result |-> "running"]
        /\ UNCHANGED <<now, jobs, next_id, sched_vars, blocks, pc, cur, queue, player, api, other_vars>>

Attempt ==
    \E outcome \in Outcomes :
        /\ backend.result = "running"
        /\ backend' = AfterAttempt(backend, outcome)
        /\ UNCHANGED <<now, jobs, next_id, sched_vars, blocks, pc, cur, queue, player, api, other_vars>>

NextBackend == BackendCall \/ Attempt

SpecBackend == Init /\ [][NextBackend]_vars

----------------------------------------------------------------------------
(* The control surface under concurrent requests.  CommandServer.start runs
   the Flask development server, which serves each request in a thread of
   its own; a handler is followed here from one access to the shared state
   to the next. *)

ConcurrentDirs == {"a", "b"}
ConcurrentTimes == {<<0, 1, Colon, 0, 0>>, <<0, 2, Colon, 0, 0>>}
ConcurrentBlocks ==
    {Block(<<0, 0>>, <<0, 1, Colon, 0, 0>>, <<0, 2, Colon, 0, 0>>),
     Block(<<0, 1>>, <<0, 1, Colon, 0, 0>>, <<0, 2, Colon, 0, 0>>)}

InStore(bs, b) == \E i \in DOMAIN bs : bs[i] = b

(* a request arrives: POST /special/play, /block/add or /block/remove *)
ReceiveAdd(h) ==
    \E dir \in ConcurrentDirs, pt \in ConcurrentTimes :
        /\ req[h].pc = "idle"
        /\ req' = [req EXCEPT ![h] = [op |-> "add", pc |-> "add_check",
                                      arg |-> <<dir, <<0, 0>>, pt>>, read |-> <<>>,
                                      job |-> 0, result |-> "running"]]
        /\ UNCHANGED <<now, jobs, next_id, sched_vars, blocks, pc, cur, queue, player,
                       api, backend, local, song, tracking>>

ReceiveBlock(h) ==
    \E op \in {"add_block", "remove_block"}, b \in ConcurrentBlocks :
        /\ req[h].pc = "idle"
        /\ req' = [req EXCEPT ![h] = [op |-> op, pc |-> "blk_read", arg |-> b,
                                      read |-> <<>>, job |-> 0, result |-> "running"]]
        /\ UNCHANGED <<now, jobs, next_id, sched_vars, blocks, pc, cur, queue, player,
                       api, backend, local, song, tracking>>

(* add_priority_playlist, lines 258-278: the test of the date, the test of
   the task id against priority_tasks, and the listing of the directory *)
AddCheck(h) ==
    LET a == req[h].arg
        outcome == AddOutcome(a[1], a[2], a[3], now, priority_tasks) IN
    /\ req[h].pc = "add_check"
    /\ req' = [req EXCEPT ![h].pc = IF outcome = "ok" THEN "add_register" ELSE "done",
                          ![h].result = IF outcome = "ok" THEN "running" ELSE outcome]
    /\ UNCHANGED <<now, jobs, next_id, sched_vars, blocks, pc, cur, queue, player,
                   api, backend, local, song, tracking>>

(* line 297: schedule.every().day.at(play_time).do(...) *)
AddRegister(h) ==
    LET a == req[h].arg IN
    /\ req[h].pc = "add_register"
    /\ jobs' = AddJobs(jobs, next_id, a[1], a[2], a[3], now, "ok")
    /\ next_id' = next_id + 1
    /\ req' = [req EXCEPT ![h].pc = "add_store", ![h].job = next_id]
    /\ UNCHANGED <<now, sched_vars, blocks, pc, cur, queue, player,
                   api, backend, local, song, tracking>>

(* lines 301-310: self.priority_tasks[task_id] = {...}; return task_id *)
AddStore(h) ==
    LET a == req[h].arg IN
    /\ req[h].pc = "add_store"
    /\ priority_tasks' = AddTasks(priority_tasks, req[h].job, a[1], a[2], a[3], "ok")
    /\ req' = [req EXCEPT ![h].pc = "done", ![h].result = "ok"]
    /\ UNCHANGED <<now, jobs, next_id, is_priority_playing, current_priority_task,
                   priority_end_time, is_loaded, blocks, pc, cur, queue, player,
                   api, backend, local, song, tracking>>

(* add_block line 75, remove_block line 114: blocks = self._read_blocks() *)
BlockRead(h) ==
    /\ req[h].pc = "blk_read"
    /\ req' = [req EXCEPT ![h].pc = "blk_write", ![h].read = blocks]
    /\ UNCHANGED <<now, jobs, next_id, sched_vars, blocks, pc, cur, queue, player,
                   api, backend, local, song, tracking>>

(* add_block lines 82-88, remove_block lines 120-124: the membership test on
   the copy that was read, the change of that copy, and _write_blocks of it *)
BlockWrite(h) ==
    LET b == req[h].arg
        found == InStore(req[h].read, b) IN
    /\ req[h].pc = "blk_write"
    /\ IF req[h].op = "add_block"
       THEN IF found
            THEN UNCHANGED <<jobs, next_id, blocks>>
            ELSE /\ jobs' = AddBlockImmediately(jobs, next_id, b, now)
                 /\ next_id' = NewId(jobs', next_id, jobs)
                 /\ blocks' = Append(req[h].read, b)
       ELSE /\ blocks' = IF found THEN RemoveFirst(req[h].read, b) ELSE blocks
            /\ UNCHANGED <<jobs, next_id>>
    /\ req' = [req EXCEPT ![h].pc = "done",
                          ![h].result = IF (req[h].op = "add_block") = found
                                        THEN "False" ELSE "True"]
    /\ UNCHANGED <<now, sched_vars, pc, cur, queue, player,
                   api, backend, local, song, tracking>>

NextConcurrent ==
    \E h \in Handlers :
        \/ ReceiveAdd(h)
        \/ ReceiveBlock(h)
        \/ AddCheck(h)
        \/ AddRegister(h)
        \/ AddStore(h)
        \/ BlockRead(h)
        \/ BlockWrite(h)

SpecConcurrent == Init /\ [][NextConcurrent]_vars

----------------------------------------------------------------------------
(* Filling the playlist with local songs: _add_local_songs_until_duration
   (called by update_playlist, which a polling thread runs) and the loop of
   update_playlist_local (which the hotkey thread runs), both drawing songs
   with _get_random_local_song.  Durations are in minutes. *)

UpdateTarget == 55
LocalTarget == 50
MaxTries == 3

(* os.listdir(AUDIO_FOLDER_PATH) *)
AudioFolder == {"s1", "s2", "s3"}

(* _get_song_duration of a local song: None when AudioFileClip raises *)
LocalDuration(s) == IF s = "s3" THEN None ELSE 30

Target(f) == IF f = "update_playlist" THEN UpdateTarget ELSE LocalTarget

(* the duration update_playlist has summed over the backend's songs when it
   calls _add_local_songs_until_duration; update_playlist_local starts at 0 *)
StartDurations(f) == IF f = "update_playlist" THEN {0, 30, 60} ELSE {0}

InList(list, s) == \E i \in DOMAIN list : list[i] = s

(* the test of the while loop of the caller: call _get_random_local_song
   again, or return *)
AfterLoopTest(f, total) == IF total < Target(f) THEN "choose" ELSE "idle"

(* a pass of `while files_list:` that met a played song: the list is not
   shortened and the loop goes on *)
AfterPlayedPick(wk) ==
    [wk EXCEPT !.tries = wk.tries + 1, !.song = "none"]

StartFill(f) ==
    \E start \in StartDurations(f) :
        /\ local.w[f].pc = "idle"
        /\ local' = [local EXCEPT !.w[f] =
                        [pc |-> AfterLoopTest(f, start), total |-> start, tries |-> 0,
                         song |-> "none", returned |-> "none"]]
        /\ UNCHANGED <<now, jobs, next_id, sched_vars, blocks, pc, cur, queue, player,
                       api, backend, req, song, tracking>>

(* _get_random_local_song lines 509-514: choice(files_list), then
   get_played_songs() and the membership test *)
Choose(f) ==
    \E s \in AudioFolder :
        /\ local.w[f].pc = "choose"
        /\ local.w[f].tries < MaxTries
        /\ local' = [local EXCEPT !.w[f] =
                        IF InList(local.played, s)
                        THEN AfterPlayedPick(local.w[f])
                        ELSE [local.w[f] EXCEPT !.pc = "record", !.song = s]]
        /\ UNCHANGED <<now, jobs, next_id, sched_vars, blocks, pc, cur, queue, player,
                       api, backend, req, song, tracking>>

(* the additions of one drawn song: line 517 inside _get_random_local_song,
   and line 474 of update_playlist_local when the duration could be read *)
Additions(f, s) ==
    IF f = "update_playlist_local" /\ LocalDuration(s) \notin {None, 0}
    THEN <<s, s>> ELSE <<s>>

(* lines 515-518: add_to_played_songs, add_song_to_playlist, return; then
   the caller reads the duration, adds it when it is readable, and tests
   its loop condition *)
Record(f) ==
    LET s == local.w[f].song
        d == LocalDuration(s)
        total == IF d \in {None, 0} THEN local.w[f].total ELSE local.w[f].total + d IN
    /\ local.w[f].pc = "record"
    /\ local' = [played |-> Append(local.played, s),
                 added |-> local.added \o Additions(f, s),
                 w |-> [local.w EXCEPT ![f] =
                          [pc |-> AfterLoopTest(f, total), total |-> total, tries |-> 0,
                           song |-> "none", returned |-> s]]]
    /\ UNCHANGED <<now, jobs, next_id, sched_vars, blocks, pc, cur, queue, player,
                   api, backend, req, song, tracking>>

(* AimpController.clear_played_songs, the daily job of 07:44 *)
clear_played_songs ==
    /\ local.played # <<>>
    /\ local' = [local EXCEPT !.played = <<>>, !.added = <<>>]
    /\ UNCHANGED <<now, jobs, next_id, sched_vars, blocks, pc, cur, queue, player,
                   api, backend, req, song, tracking>>

NextLocal ==
    \/ \E f \in Fills : StartFill(f) \/ Choose(f) \/ Record(f)
    \/ clear_played_songs

SpecLocal == Init /\ [][NextLocal]_vars

----------------------------------------------------------------------------
(* The processing of a candidate song of the backend: _process_song with the
   profanity count of TextAnalyzer and the verdict of the sentiment model *)

SwearLimit == 6
MaxCount == 7

(* what the sentiment model answers, after json.loads: no usable answer
   (None), an empty object, an object without the key, the key with a JSON
   boolean, or the key with a JSON string *)
Verdicts == {"None", "empty", "missing", "true", "false", "string_false", "string_yes"}

(* line 361: sentiment_result.get('is_safe_for_radio', False) as a condition *)
SafeForRadio(v) == v \in {"true", "string_false", "string_yes"}

(* a limit of profanity matches one higher than that of line 181 *)
WithinLimit_OneMore(total) == total <= SwearLimit + 1

WithinLimit(total) == total <= SwearLimit

(* TextAnalyzer.analyze_profanity, from the number of whole-word matches of
   the Polish and of the English list; the dict of Polish matches is empty
   exactly when that number is 0 *)
analyze_profanity(pl, en) ==
    IF pl + en = 0 THEN "Lyrics go to NLP model"
    ELSE IF WithinLimit(pl + en) /\ pl = 0 THEN "6 swear words or less"
    ELSE "Too many swear words"

(* TextAnalyzer._is_text_acceptable *)
IsTextAcceptable(profanity_result) ==
    profanity_result \in {"6 swear words or less", "Lyrics go to NLP model"}

SongInputs ==
    [blacklisted : BOOLEAN, download : {"none", "fresh", "cached"}, played : BOOLEAN,
     exists : BOOLEAN, lyrics : {"none", "empty", "text"}, pl : 0 .. MaxCount,
     en : 0 .. MaxCount, verdict : Verdicts, move : {"ok", "raises"}]

Outcome(downloaded, profanity, moved, added, to_blacklist, result) ==
    [downloaded |-> downloaded, profanity |-> profanity,
     is_acceptable |-> IsTextAcceptable(profanity),
     moved |-> moved, added |-> added, to_blacklist |-> to_blacklist, result |-> result]

(* PlaylistManager._process_song, in the order of its statements *)
ProcessSong(i) ==
    LET profanity == analyze_profanity(i.pl, i.en) IN
    IF i.blacklisted THEN Outcome(FALSE, "none", FALSE, FALSE, FALSE, FALSE)
    ELSE IF i.download = "none" THEN Outcome(FALSE, "none", FALSE, FALSE, FALSE, FALSE)
    ELSE IF i.played THEN Outcome(i.download = "fresh", "none", FALSE, FALSE, FALSE, FALSE)
    ELSE IF i.exists THEN Outcome(i.download = "fresh", "none", FALSE, TRUE, FALSE, TRUE)
    ELSE IF i.lyrics # "text"
         THEN Outcome(i.download = "fresh", "none", FALSE, FALSE, TRUE, FALSE)
    ELSE IF ~IsTextAcceptable(profanity)
         THEN Outcome(i.download = "fresh", profanity, FALSE, FALSE, TRUE, FALSE)
    ELSE IF i.verdict \in {"None", "empty"}
         THEN Outcome(i.download = "fresh", profanity, FALSE, FALSE, TRUE, FALSE)
    ELSE IF ~SafeForRadio(i.verdict)
         THEN Outcome(i.download = "fresh", profanity, FALSE, FALSE, TRUE, FALSE)
    ELSE IF i.move = "raises"
         THEN Outcome(i.download = "fresh", profanity, FALSE, FALSE, FALSE, FALSE)
    ELSE Outcome(i.download = "fresh", profanity, TRUE, TRUE, FALSE, TRUE)

(* update_playlist lines 95-96: the loop calls _process_song for one song of
   the backend's list after the other *)
process_song ==
    /\ ~song.called
    /\ \E i \in SongInputs : song' = [called |-> TRUE, in |-> i, out |-> ProcessSong(i)]
    /\ UNCHANGED <<now, jobs, next_id, sched_vars, blocks, pc, cur, queue, player,
                   api, backend, req, local, tracking>>

next_song ==
    /\ song.called
    /\ song' = NoSong
    /\ UNCHANGED <<now, jobs, next_id, sched_vars, blocks, pc, cur, queue, player,
                   api, backend, req, local, tracking>>

NextSong == process_song \/ next_song

SpecSong == Init /\ [][NextSong]_vars

----------------------------------------------------------------------------
(* The now-playing loop of main(): every 3 seconds it reads the current
   track and posts it when its title is not previous_title *)

MaxTicks == 4

(* the titles AIMP reports; '' is the default of info.get('title', '') *)
Titles == {"", "A", "B"}

(* line 221: current_track and current_track['title'] != previous_title;
   get_current_track_info gives None without a client or on an error *)
ShouldPost(prev, read) == read # <<>> /\ read # prev

(* a loop that forgets to keep the title it posted *)
PreviousAfter_NotKept(prev, read) == prev

(* line 222: previous_title = current_track['title'] *)
PreviousAfter(prev, read) == IF ShouldPost(prev, read) THEN read ELSE prev

(* the player moves to another track *)
TrackChange ==
    /\ \E t \in Titles \ {tracking.track} : tracking' = [tracking EXCEPT !.track = t]
    /\ UNCHANGED <<now, jobs, next_id, sched_vars, blocks, pc, cur, queue, player,
                   api, backend, req, local, song>>

(* one pass of the loop, lines 218-226; post_playing_song returns True or
   False and the loop does not look at it *)
NowPlayingTick ==
    /\ tracking.ticks < MaxTicks
    /\ \E read \in {<<>>, <<tracking.track>>}, ok \in {"True", "False"} :
          tracking' =
             [track |-> tracking.track,
              previous_title |-> PreviousAfter(tracking.previous_title, read),
              seen |-> IF read = <<>> THEN tracking.seen
                       ELSE Append(tracking.seen, read[1]),
              posts |-> IF ShouldPost(tracking.previous_title, read)
                        THEN Append(tracking.posts, read[1]) ELSE tracking.posts,
              ticks |-> tracking.ticks + 1,
              result |-> IF ShouldPost(tracking.previous_title, read)
                         THEN ok ELSE tracking.result]
    /\ UNCHANGED <<now, jobs, next_id, sched_vars, blocks, pc, cur, queue, player,
                   api, backend, req, local, song>>

NextPlaying == TrackChange \/ NowPlayingTick

SpecPlaying == Init /\ [][NextPlaying]_vars

----------------------------------------------------------------------------
(* Properties *)

EntersTask(th) == pc[th] # "w_body" /\ pc'[th] = "w_body"

(* C1: from the activation that sets is_priority_playing until cleanup
   resets it, no guarded recurring action starts its wrapped task, in any
   interleaving of the two polling loops. *)
C1_NoGuardedTaskWhilePriorityPlays ==
    [][\A th \in Threads : EntersTask(th) => ~is_priority_playing]_vars

(* C2: the is_loaded gate is single-flight: the activation body (flags set,
   tracks loaded, monitor registered) is never entered while an earlier
   activation still holds is_loaded, whichever threads and tasks are
   involved. *)
C2_ActivationIsSingleFlight ==
    [][\A th \in Threads :
          (pc[th] = "act_set" /\ pc'[th] = "act_load") => ~is_loaded]_vars

(* C3: no trigger of a daily job is executed twice: the two polling loops
   never run the callback of the same daily job for the same next_run. *)
C3_NoTriggerExecutedTwice ==
    \A t1, t2 \in Threads :
        (t1 # t2 /\ cur[t1].kind \in {"guarded", "trigger", "daily_blocks"})
            => <<cur[t1].id, cur[t1].next_run>> # <<cur[t2].id, cur[t2].next_run>>

(* C4: the wrapper calls its task if and only if, as it reads them,
   is_priority_playing is false, is_blocked() is false and today is Monday
   to Friday; otherwise the task is not called and the wrapper returns. *)
C4_WrapperRunsIffGuardsPass ==
    [][\A th \in Threads :
          /\ (pc[th] = "w_check" /\ pc'[th] # "w_check")
                => (pc'[th] = "w_guard" <=> ~is_priority_playing)
          /\ (pc[th] = "w_guard" /\ pc'[th] # "w_guard")
                => (pc'[th] = "w_body" <=> (~is_blocked(blocks, now) /\ Weekday(now) < 5))
          /\ EntersTask(th) => pc[th] = "w_guard"]_vars

C4_Witness ==
    \E th \in Threads : pc[th] = "w_body" /\ ~is_blocked(blocks, now) /\ Weekday(now) < 5

(* C5: is_blocked() is true exactly when some stored block has its date
   equal to today and start_time <= time of day <= end_time, compared as
   times of day. *)
InBlock(b, t) ==
    /\ ParseDate(b.date) = DateOf(t)
    /\ ParseTime(b.start_time) <= TimeOf(t)
    /\ TimeOf(t) <= ParseTime(b.end_time)

C5_BlockedIffInsideABlock ==
    is_blocked(blocks, now) <=> \E i \in DOMAIN blocks : InBlock(blocks[i], now)

(* C6: add fails with a ValueError whenever play_datetime is earlier than
   or equal to the current time. *)
C6_NotFutureIsRejected ==
    (api.op = "add" /\ api.play_datetime <= api.at) => api.result = "ValueError"

Pending == {r.task_id : r \in get_priority_tasks}

(* C7 as stated: add with a future play_datetime and a task_id not among
   the pending tasks always succeeds and the task_id is pending afterwards. *)
C7_FutureFreshAddSucceeds ==
    (api.op = "add" /\ api.play_datetime > api.at /\ api.fresh)
        => (api.result = "ok" /\ api.task \in Pending)

(* C7 amended: add with a future play_datetime, a task_id not among the
   pending tasks, a directory that exists and can be listed and a play_time
   written as zero-padded HH:MM always succeeds, and the task_id is in
   get_priority_tasks afterwards. *)
C7_FutureFreshAddOfListableDirSucceeds ==
    (/\ api.op = "add" /\ api.play_datetime > api.at /\ api.fresh
     /\ api.task[1] \in ListableDirs /\ api.task[3] \in PaddedTimes)
        => (api.result = "ok" /\ api.task \in Pending)

C7_Witness ==
    /\ api.op = "add" /\ api.play_datetime > api.at /\ api.fresh
    /\ api.task[1] \in ListableDirs /\ api.task[3] \in PaddedTimes
    /\ api.result = "ok" /\ api.task \in Pending

IsAdd == api'.n # api.n /\ api'.op = "add"

(* C8: while a task with the same (directory, play_date, play_time) is
   pending, a second add fails with an error; the task record and the job
   registry stay as they were. *)
C8_DuplicateAddFailsAndKeepsState ==
    [][(IsAdd /\ api'.task \in DOMAIN priority_tasks)
          => (/\ api'.result = "ValueError"
              /\ priority_tasks' = priority_tasks
              /\ jobs' = jobs)]_vars

C8_Witness ==
    /\ api.op = "add" /\ ~api.fresh /\ api.play_datetime >= api.at
    /\ api.result = "ValueError" /\ api.task \in DOMAIN priority_tasks

(* C9: a failed add surfaces its exception to the caller and leaves
   priority_tasks and the job registry exactly as they were. *)
C9_FailedAddChangesNothing ==
    [][(IsAdd /\ api'.result # "ok")
          => (/\ api'.result \in {"ValueError", "OSError", "ScheduleValueError"}
              /\ priority_tasks' = priority_tasks
              /\ jobs' = jobs)]_vars

C9_Witness ==
    api.op = "add" /\ api.fresh /\ api.play_datetime > api.at /\ api.result = "OSError"

(* C10: when the monitor has run cleanup for the active task and returned,
   the task's trigger job is not registered, its record is gone, and
   is_priority_playing = false, current_priority_task = null,
   priority_end_time = null and is_loaded = false. *)
C10_CleanupLeavesNothingBehind ==
    [][\A th \in Threads :
          (pc[th] = "mon_reset" /\ pc'[th] # "mon_reset")
            => (/\ cur[th].task \notin DOMAIN priority_tasks'
                /\ \A i \in DOMAIN jobs' :
                      ~(jobs'[i].kind = "trigger" /\ jobs'[i].task = cur[th].task)
                /\ ~is_priority_playing'
                /\ current_priority_task' = NoTask
                /\ priority_end_time' = None
                /\ ~is_loaded')]_vars

(* C11: cleanup is idempotent: a second invocation for the same task_id,
   after the first one or racing with it from the other thread, never
   raises: a thread that has passed the test of line 361 still finds the
   record of the task when it looks it up and deletes it. *)
C11_CleanupNeverRaises ==
    \A th \in Threads : pc[th] = "cleanup_body" => cur[th].task \in DOMAIN priority_tasks

(* every polling thread sleeps and no job is due *)
Quiescent == (\A th \in Threads : pc[th] = "idle") /\ Runnable(jobs, now) = <<>>

HasMonitor(k) == \E i \in DOMAIN jobs : jobs[i].kind = "monitor" /\ jobs[i].task = k

(* C12: every activated priority task is eventually completed.  Only the
   task's monitor job completes it, so for a finite run: whenever the
   polling threads have run everything that was due and a task still holds
   is_priority_playing, a monitor job of that task is registered, ready to
   run cleanup once priority_end_time is reached. *)
C12_ActivatedTaskIsEventuallyCompleted ==
    (Quiescent /\ is_priority_playing) => HasMonitor(current_priority_task)

(* the thread is about to raise inside check_playlist_status *)
MonitorRaises(th) ==
    \/ pc[th] = "mon_time" /\ priority_end_time = None
    \/ pc[th] = "cleanup_body" /\ cur[th].task \notin DOMAIN priority_tasks

(* C13: an exception raised during activation or during a monitor tick is
   logged and swallowed, and a monitor job for the task keeps ticking
   afterwards: when the activation body ends, by return or by exception, a
   monitor job of the task is registered, and a monitor job whose tick
   raised is still registered. *)
C13_MonitorKeepsTickingAfterException ==
    [][\A th \in Threads :
          /\ (pc[th] = "act_load" /\ pc'[th] # "act_load")
                => \E i \in DOMAIN jobs' :
                      jobs'[i].kind = "monitor" /\ jobs'[i].task = cur[th].task
          /\ (MonitorRaises(th) /\ pc'[th] # pc[th])
                => \E i \in DOMAIN jobs' : jobs'[i].id = cur[th].id]_vars

(* C14: while is_blocked() is true no automated playback action runs: no
   guarded recurring action starts its task, no priority activation starts
   its body, and priority cleanup does not refresh the playlist and resume
   playback. *)
C14_NoPlaybackActionDuringABlock ==
    [][\A th \in Threads :
          /\ EntersTask(th) => ~is_blocked(blocks, now)
          /\ (pc[th] = "act_set" /\ pc'[th] = "act_load") => ~is_blocked(blocks, now)
          /\ (pc[th] = "cleanup_resume" /\ pc'[th] # "cleanup_resume")
                => ~is_blocked(blocks, now)]_vars

(* the thread takes a step *)
Steps(th) == <<pc[th], cur[th]>> # <<pc'[th], cur'[th]>>

(* C15: a firing priority task has exclusive control of playback: while
   is_priority_playing is true no block start-action and no block
   end-action changes the state of the player. *)
C15_PriorityHasExclusiveControl ==
    [][\A th \in Threads :
          (pc[th] \in {"blk_start", "blk_end"} /\ Steps(th) /\ player' # player)
              => ~is_priority_playing]_vars

(* add_block has just returned True; the block it stored *)
AddedBlock == api'.n # api.n /\ api'.op = "add_block" /\ api'.result = "True"
NewBlock == blocks'[Len(blocks')]

(* a new job of the given kind is registered to run today at time of day h *)
RegisteredToday(kind, h) ==
    \E i \in DOMAIN jobs' :
        /\ jobs'[i].kind = kind /\ jobs'[i].id >= next_id
        /\ jobs'[i].next_run = At(DateOf(now), h)

(* C16: when add_block succeeds for a block dated today, the block takes
   effect the same day: is_blocked() is true as soon as add_block returns
   if the current time lies in the block, and the start-action and the
   end-action are registered to fire today at start_time and end_time,
   each one if its time is still ahead. *)
C16_BlockForTodayTakesEffectAtOnce ==
    [][(AddedBlock /\ ParseDate(NewBlock.date) = DateOf(now))
          => (/\ InBlock(NewBlock, now) => is_blocked(blocks', now)
              /\ ParseTime(NewBlock.start_time) > TimeOf(now)
                    => RegisteredToday("block_start", ParseTime(NewBlock.start_time))
              /\ ParseTime(NewBlock.end_time) > TimeOf(now)
                    => RegisteredToday("block_end", ParseTime(NewBlock.end_time)))]_vars

(* C17: for a block dated today whose start_time is already past and whose
   end_time is still ahead, is_blocked() is true immediately after
   add_block, and the end-action is registered to fire at end_time today,
   when it resumes playback unless a priority task is active. *)
C17_RunningBlockIsBlockedAtOnce ==
    [][(/\ AddedBlock
        /\ ParseDate(NewBlock.date) = DateOf(now)
        /\ ParseTime(NewBlock.start_time) <= TimeOf(now)
        /\ ParseTime(NewBlock.end_time) > TimeOf(now))
          => (/\ is_blocked(blocks', now)
              /\ RegisteredToday("block_end", ParseTime(NewBlock.end_time)))]_vars

(* the daily derivation has just run: the 00:01 job has a new next_run *)
Derived ==
    \E i \in DOMAIN jobs, k \in DOMAIN jobs' :
        /\ jobs[i].kind = "daily_blocks" /\ jobs'[k].id = jobs[i].id
        /\ jobs'[k].next_run # jobs[i].next_run

BlockJobsOf(js) == SelectSeq(js, LAMBDA j : j.kind \in {"block_start", "block_end"})
BlocksOfDay(bs, t) == SelectSeq(bs, LAMBDA b : ParseDate(b.date) = DateOf(t))

(* the registry js holds no block job older than `floor` and, for every
   block of bs dated as t, exactly a start-action and an end-action *)
TwoJobsPerBlock(js, floor, bs, t) ==
    LET bj == BlockJobsOf(js)
        today == BlocksOfDay(bs, t)
    IN  /\ \A i \in DOMAIN bj : bj[i].id >= floor
        /\ Len(bj) = 2 * Len(today)
        /\ \A k \in DOMAIN today :
              /\ bj[2 * k - 1].kind = "block_start"
              /\ bj[2 * k - 1].next_run = At(DateOf(t), ParseTime(today[k].start_time))
              /\ bj[2 * k].kind = "block_end"
              /\ bj[2 * k].next_run = At(DateOf(t), ParseTime(today[k].end_time))

(* C18 as stated: each daily derivation, at setup and at 00:01, removes
   every block job registered before and registers exactly two jobs, a
   start-action and an end-action, for every stored block dated today, and
   none for a block of another date. *)
C18_DerivationRegistersTwoJobsPerBlock ==
    /\ TwoJobsPerBlock(jobs, 3, blocks, now)
    /\ [][Derived => TwoJobsPerBlock(jobs', next_id, blocks, now)]_vars

(* C19: the bulk-cancel of the daily derivation removes only block jobs:
   the recurring daily jobs are registered after the derivation of setup,
   and at 00:01 every recurring daily job, every pending priority trigger
   job and every running monitor job, other than the job that runs the
   derivation, is still registered with the same trigger time after the
   derivation. *)
C19_DerivationKeepsUnrelatedJobs ==
    /\ \A kind \in {"daily_blocks", "guarded"} : \E i \in DOMAIN jobs : jobs[i].kind = kind
    /\ [][\A th \in Threads :
            (pc[th] = "daily" /\ pc'[th] # "daily")
                => \A i \in DOMAIN jobs :
                      (jobs[i].kind \notin {"block_start", "block_end"} /\ jobs[i].id # cur[th].id)
                          => \E k \in DOMAIN jobs' : jobs'[k] = jobs[i]]_vars

(* the derivation of day 1 has run while a priority trigger job, which only
   a request of day 0 can have registered, is in the registry *)
C19_Witness ==
    /\ now = DayLen
    /\ \E i \in DOMAIN jobs : jobs[i].kind = "daily_blocks" /\ jobs[i].next_run > now
    /\ \E i \in DOMAIN jobs : jobs[i].kind = "trigger"
    /\ \E i \in DOMAIN jobs : jobs[i].kind = "guarded"

NoDuplicateBlocks(bs) == \A i, k \in DOMAIN bs : bs[i] = bs[k] => i = k

(* C20: under sequential add_block and remove_block requests the store
   never holds two blocks equal in date, start_time and end_time: an
   add_block that returns True has appended a block that was not stored,
   and one that returns False, the add of a stored block, leaves the store
   and the job registry unchanged. *)
C20_StoreHoldsNoDuplicateBlock ==
    /\ NoDuplicateBlocks(blocks)
    /\ [][/\ NoDuplicateBlocks(blocks')
          /\ (api'.n # api.n /\ api'.op = "add_block")
                => IF api'.result = "True"
                   THEN /\ blocks' = Append(blocks, NewBlock)
                        /\ \A i \in DOMAIN blocks : blocks[i] # NewBlock
                   ELSE blocks' = blocks /\ jobs' = jobs]_vars

(* an add_block of a stored block has returned False *)
C20_Witness ==
    /\ api.op = "add_block" /\ api.result = "False"
    /\ blocks # <<>>

IsCommand == api'.n # api.n /\ api'.op = "command"

(* C21: POST /command answers with status 400 for every command value that
   is not one of play, pause, next, and then sends no command to the
   player. *)
C21_UnknownCommandIsRejected ==
    [][(IsCommand /\ api'.arg \notin {"play", "pause", "next"})
          => (api'.result = "400" /\ api'.sent = "none" /\ player' = player)]_vars

(* C24: GET /block/list returns the list of stored blocks for every state
   of the block store, including the empty store. *)
C24_ListReturnsTheStoredBlocks ==
    [][(api'.n # api.n /\ api'.op = "list_blocks")
          => (api'.result = "200" /\ api'.body = blocks)]_vars

Answered200(outcome) == outcome \in {"200", "200_undecodable"}
Returned == backend.result \notin {"none", "running"}

(* C22 as stated: a backend call makes at most three attempts, stops at the
   first attempt answered with status 200 and returns its result, and after
   three attempts that raise or answer with another status returns None /
   False. *)
C22_StopsAtTheFirst200 ==
    /\ Len(backend.tries) <= MaxAttempts
    /\ \A i \in DOMAIN backend.tries :
          Answered200(backend.tries[i])
              => (i = Len(backend.tries) /\ backend.result = Success(backend.fn))
    /\ (Len(backend.tries) = MaxAttempts
            /\ \A i \in DOMAIN backend.tries : ~Answered200(backend.tries[i]))
          => backend.result = Failure(backend.fn)

(* an attempt that ends the call with a result: status 200 and, for
   fetch_songs_from_backend, a body that decodes *)
Usable(fn, outcome) ==
    outcome = "200" \/ (fn = "post_playing_song" /\ outcome = "200_undecodable")

(* C22 amended: a backend call makes at most three attempts; it stops at the
   first attempt answered with status 200 (for fetch_songs_from_backend:
   with a body that decodes as JSON) and returns its result; an attempt that
   raises, answers with another status or, for fetch_songs_from_backend,
   answers 200 with a body that does not decode is followed by the next
   attempt, and after three such attempts the call returns None / False. *)
C22_StopsAtTheFirstUsable200 ==
    /\ Len(backend.tries) <= MaxAttempts
    /\ \A i \in DOMAIN backend.tries :
          Usable(backend.fn, backend.tries[i])
              => (i = Len(backend.tries) /\ backend.result = Success(backend.fn))
    /\ (Len(backend.tries) = MaxAttempts
            /\ \A i \in DOMAIN backend.tries : ~Usable(backend.fn, backend.tries[i]))
          => backend.result = Failure(backend.fn)
    /\ (backend.result = "running") <=>
          (/\ backend.fn # "none" /\ Len(backend.tries) < MaxAttempts
           /\ \A i \in DOMAIN backend.tries : ~Usable(backend.fn, backend.tries[i]))
    /\ backend.result = Success(backend.fn)
          => (backend.tries # <<>> /\ Usable(backend.fn, backend.tries[Len(backend.tries)]))

(* a call has returned its result at the third attempt, after an attempt
   that raised and one answered with another status *)
C22_Witness ==
    /\ Returned
    /\ Len(backend.tries) = MaxAttempts
    /\ backend.result = Success(backend.fn)
    /\ backend.tries[1] = "raise" /\ backend.tries[2] = "500"

(* the callback of the thread's job is about to raise out of run_pending *)
CallbackRaises(th) == pc[th] = "act_load" /\ LoadOutcome(cur[th].task[1]) # "ok"

(* C23: an exception raised by a job callback during a polling tick never
   stops a polling loop: the thread is back at run_pending, and every job of
   the registry, the other due jobs among them, is registered and due as
   before, so that the next run_pending takes them. *)
C23_ExceptionDoesNotStopThePollingLoop ==
    [][\A th \in Threads :
          (CallbackRaises(th) /\ Steps(th))
              => /\ pc'[th] = "idle"
                 /\ jobs' = jobs
                 /\ \A k \in DOMAIN queue[th] :
                       (\E i \in DOMAIN jobs : jobs[i] = queue[th][k])
                           => \E m \in DOMAIN Runnable(jobs', now') :
                                 Runnable(jobs', now')[m] = queue[th][k]]_vars

(* the activation for the directory without audio files has raised, its
   thread polls again and a job other than the trigger is due *)
C23_Witness ==
    /\ \A th \in Threads : pc[th] = "idle"
    /\ is_priority_playing /\ current_priority_task # NoTask
    /\ LoadOutcome(current_priority_task[1]) # "ok"
    /\ \E m \in DOMAIN Runnable(jobs, now) : Runnable(jobs, now)[m].kind # "trigger"

(* the monitor job run by th is, after the step, in the registry *)
Registered_(th) == \E i \in DOMAIN jobs' : jobs'[i].id = cur[th].id

(* the step of th does not cancel the monitor job that th runs *)
StaysRegistered(th) == (\E i \in DOMAIN jobs : jobs[i].id = cur[th].id) => Registered_(th)

(* th returns from the callback of its job *)
Returns_(th) == cur'[th] # cur[th]

(* C25: on each monitor tick, if is_priority_playing is false or the
   monitored task is not current_priority_task, the monitor cancels itself
   and changes no state; otherwise, if now >= priority_end_time, it performs
   cleanup and cancels itself: once the tick has found the end time reached
   it returns with the monitor cancelled, the task record removed and the
   flags reset; otherwise it stays registered and changes no state. *)
C25_MonitorTickOutcome ==
    [][\A th \in Threads :
          /\ (pc[th] = "mon_check" /\ Returns_(th))
                => (~Registered_(th) /\ UNCHANGED <<sched_vars, player>>)
          /\ (pc[th] = "mon_time" /\ Returns_(th))
                => (StaysRegistered(th) /\ UNCHANGED <<sched_vars, player>>)
          /\ (pc[th] \in {"cleanup", "cleanup_body", "cleanup_resume", "mon_reset", "mon_skip"}
                  /\ Returns_(th))
                => (/\ ~Registered_(th)
                    /\ cur[th].task \notin DOMAIN priority_tasks'
                    /\ ~is_priority_playing' /\ ~is_loaded'
                    /\ current_priority_task' = NoTask
                    /\ priority_end_time' = None)]_vars

MonitorsOf(js, task) == {i \in DOMAIN js : js[i].kind = "monitor" /\ js[i].task = task}

(* C26: a successful activation of task T leaves is_priority_playing true,
   current_priority_task = T, priority_end_time = activation time + the
   stored duration of T, and exactly one monitor job for T, registered at
   the monitor period. *)
C26_ActivationLeavesOneMonitor ==
    [][\A th \in Threads :
          /\ (pc[th] = "act_set" /\ Steps(th))
                => (/\ is_priority_playing' /\ current_priority_task' = cur[th].task
                    /\ priority_end_time' = now + cur[th].dur)
          /\ (pc[th] = "act_load" /\ Steps(th) /\ LoadOutcome(cur[th].task[1]) = "ok")
                => (/\ Cardinality(MonitorsOf(jobs', cur[th].task)) = 1
                    /\ \A i \in MonitorsOf(jobs', cur[th].task) :
                          jobs'[i].next_run = now + MonitorPeriod)]_vars

(* C27: a priority task's trigger activates the task only on its target
   date: when the trigger fires on any other date, the callback changes no
   flag, loads nothing and registers no monitor, and the trigger job stays
   registered. *)
C27_TriggerOnAnotherDateDoesNothing ==
    [][\A th \in Threads :
          (pc[th] = "act_check" /\ Steps(th) /\ DateOf(now) # ParseDate(cur[th].task[2]))
              => (/\ UNCHANGED <<sched_vars, player>>
                  /\ pc'[th] \notin {"act_set", "act_load"} \/ cur'[th] # cur[th]
                  /\ MonitorsOf(jobs', cur[th].task) = MonitorsOf(jobs, cur[th].task)
                  /\ StaysRegistered(th))]_vars

(* the trigger of a task for day 0 has fired on day 1, with the gate of
   is_loaded open, and is registered for day 2; nothing is activated *)
C27_Witness ==
    /\ ~is_loaded /\ ~is_priority_playing
    /\ \E i \in DOMAIN jobs :
          /\ jobs[i].kind = "trigger" /\ ParseDate(jobs[i].task[2]) = 0
          /\ jobs[i].next_run >= 2 * DayLen

(* C28: every task accepted by add whose play date and time arrive while
   the scheduler is ticking goes PENDING to ACTIVE to COMPLETED and is then
   absent from get_pending(), a task whose trigger fires while another task
   is active included: once its play time has passed and the polling loops
   have nothing left to run, a task still pending is the active one and has
   its monitor. *)
C28_DueTaskIsActivatedAndCompleted ==
    Quiescent =>
        \A t \in DOMAIN priority_tasks :
            priority_tasks[t].play_datetime < now
                => (is_priority_playing /\ current_priority_task = t /\ HasMonitor(t))

(* the entries that count: files directly inside the directory, with a
   supported ending and a length that can be read *)
Counted(dir) ==
    {i \in DOMAIN Listing(dir) :
        /\ ~Listing(dir)[i].isdir
        /\ Listing(dir)[i].ext \in {"mp3", "wav", "m4a", "webm"}
        /\ Listing(dir)[i].len # None}

RECURSIVE SumOfLengths(_, _)
SumOfLengths(dir, idx) ==
    IF idx = {} THEN 0
    ELSE LET i == CHOOSE k \in idx : TRUE
         IN  Listing(dir)[i].len + SumOfLengths(dir, idx \ {i})

(* C29: the duration stored by add equals the sum of the audio lengths of
   exactly the files directly inside the directory whose name ends in .mp3,
   .wav, .m4a or .webm, a file whose length cannot be read contributing
   zero; subdirectories and files with other endings contribute nothing. *)
C29_StoredDurationIsTheSumOfAudioLengths ==
    /\ \A t \in DOMAIN priority_tasks :
          priority_tasks[t].duration = SumOfLengths(t[1], Counted(t[1]))
    /\ \A i \in DOMAIN jobs :
          jobs[i].kind = "trigger" => jobs[i].dur = SumOfLengths(jobs[i].task[1], Counted(jobs[i].task[1]))

(* add has stored a task for directory a, which holds an audio file of
   length 1, a text file of length 2, an audio file that cannot be read and
   two subdirectories *)
C29_Witness ==
    /\ api.op = "add" /\ api.result = "ok" /\ api.task[1] = "a"
    /\ api.task \in DOMAIN priority_tasks
    /\ priority_tasks[api.task].duration = 1

(* C30: a block end-action resumes playback if and only if
   is_priority_playing is false when it fires; when a priority task holds
   authority the end-action sends no command to the player. *)
C30_EndActionResumesUnlessPriority ==
    [][\A th \in Threads :
          (pc[th] = "blk_end" /\ Steps(th) /\ ~Overdue(cur[th], now))
              => IF is_priority_playing THEN player' = player ELSE player' = "playing"]_vars

(* the end-action of the block of 01:00 has fired while a priority task held
   authority and the player was paused: the player is still paused *)
C30_Witness ==
    /\ \A th \in Threads : pc[th] = "idle"
    /\ now = 1 /\ blocks # <<>>
    /\ is_priority_playing /\ player = "paused"
    /\ \A i \in DOMAIN jobs : jobs[i].kind \notin {"block_start", "block_end"}

(* C31: in every state reached between scheduler callbacks,
   is_priority_playing is true exactly when current_priority_task is
   non-null and exactly when priority_end_time is non-null;
   is_priority_playing implies is_loaded; and a non-null
   current_priority_task is a key of priority_tasks. *)
C31_PriorityFlagsAgree ==
    (\A th \in Threads : pc[th] = "idle")
        => (/\ is_priority_playing <=> current_priority_task # NoTask
            /\ is_priority_playing <=> priority_end_time # None
            /\ is_priority_playing => is_loaded
            /\ current_priority_task # NoTask
                  => current_priority_task \in DOMAIN priority_tasks)

(* the block job j, still to fire, is the start or the end job of block b *)
JobOfBlock(j, b) ==
    /\ ParseDate(b.date) = DateOf(j.next_run)
    /\ j.at = ParseTime(IF j.kind = "block_start" THEN b.start_time ELSE b.end_time)

(* C32: after any sequence of add_block, remove_block and daily
   derivations, the block jobs still to fire are those of the blocks
   currently stored: no start or end job remains for a block that was
   removed, and no stored block has more than one start job or more than
   one end job. *)
C32_BlockJobsAreThoseOfStoredBlocks ==
    \A i \in DOMAIN jobs :
        (jobs[i].kind \in {"block_start", "block_end"} /\ jobs[i].next_run > now)
            => /\ \E k \in DOMAIN blocks : JobOfBlock(jobs[i], blocks[k])
               /\ Cardinality({m \in DOMAIN jobs :
                                  /\ jobs[m].kind = jobs[i].kind
                                  /\ jobs[m].next_run = jobs[i].next_run})
                     <= Cardinality({k \in DOMAIN blocks : JobOfBlock(jobs[i], blocks[k])})

(* C33: two concurrent requests that add the same priority task: at most one
   of them succeeds, and exactly one trigger job of that task is registered *)
SameTaskAdds ==
    /\ \A h \in Handlers : req[h].op = "add" /\ req[h].pc = "done"
    /\ req["h1"].arg = req["h2"].arg

TriggersOf(task) == {i \in DOMAIN jobs : jobs[i].kind = "trigger" /\ jobs[i].task = task}

C33_ConcurrentSameAddsRegisterOneTrigger ==
    SameTaskAdds
        => /\ ~(req["h1"].result = "ok" /\ req["h2"].result = "ok")
           /\ (\E h \in Handlers : req[h].result = "ok")
                 => Cardinality(TriggersOf(TaskId(req["h1"].arg[1], req["h1"].arg[2],
                                                  req["h1"].arg[3]))) = 1

(* C34: two concurrent requests that change the block store, on different
   blocks: once both have returned True the store shows the effect of both,
   an added block being stored and a removed block being absent *)
EffectInStore(r) ==
    IF r.op = "add_block" THEN InStore(blocks, r.arg) ELSE ~InStore(blocks, r.arg)

C34_ConcurrentStoreUpdatesBothKept ==
    (/\ \A h \in Handlers :
            /\ req[h].op \in {"add_block", "remove_block"}
            /\ req[h].pc = "done" /\ req[h].result = "True"
     /\ req["h1"].arg # req["h2"].arg)
        => \A h \in Handlers : EffectInStore(req[h])

(* C35: filling the playlist with local songs terminates: a pass of the loop
   of _get_random_local_song that finds every file of the audio folder in
   the played list ends the call, which returns None *)
NoUnplayedSong == \A s \in AudioFolder : InList(local.played, s)

C35_FillEndsWhenNoUnplayedSongRemains ==
    [][\A f \in Fills :
          (/\ local.w[f].pc = "choose" /\ NoUnplayedSong
           /\ local'.w[f] # local.w[f])
              => (local'.w[f].pc = "idle" /\ local'.w[f].returned = "None")]_vars

(* C36: between two clearings of the played list no local song is added to
   the playlist twice, and every song added is in the played list *)
C36_NoLocalSongAddedTwice ==
    /\ \A i, k \in DOMAIN local.added : local.added[i] = local.added[k] => i = k
    /\ \A i \in DOMAIN local.added : InList(local.played, local.added[i])

(* C37: a song that was not already in the audio folder is moved there and
   added to the playlist only if its video id is not blacklisted, it is not
   in the played list, a non-empty transcript was obtained, the text analysis
   is acceptable and the verdict has is_safe_for_radio true; a song with a
   blacklisted video id is never downloaded *)
C37_OnlyCheckedSongsAreMoved ==
    song.called
        => /\ song.out.moved
                => /\ ~song.in.blacklisted /\ ~song.in.played
                   /\ song.in.lyrics = "text"
                   /\ song.out.is_acceptable
                   /\ song.in.verdict = "true"
           /\ (~song.in.exists /\ song.out.added) => song.out.moved
           /\ song.in.blacklisted => ~song.out.downloaded

(* C39: the text is acceptable exactly when the total count of matches is 0,
   or the total is at most 6 and there is no Polish match *)
C39_AcceptableExactlyWithinTheLimits ==
    (song.called /\ song.out.profanity # "none")
        => (song.out.is_acceptable
              <=> \/ song.in.pl + song.in.en = 0
                  \/ (song.in.pl + song.in.en <= 6 /\ song.in.pl = 0))

C39_Witness ==
    /\ song.called /\ song.out.profanity = "6 swear words or less"
    /\ song.in.en = 6 /\ song.in.pl = 0 /\ song.out.is_acceptable

(* the titles read, each run of equal titles taken once *)
RECURSIVE Changes(_)
Changes(titles) ==
    IF Len(titles) <= 1 THEN titles
    ELSE IF titles[1] = titles[2] THEN Changes(Tail(titles))
    ELSE <<titles[1]>> \o Changes(Tail(titles))

(* C38: the now-playing loop posts exactly when the title read differs from
   the title of the previous post: no two consecutive posts carry the same
   title, and the posts are the changes of title among the titles read, one
   post for each *)
C38_OnePostForEachChangeOfTitle ==
    /\ \A i \in 1 .. (Len(tracking.posts) - 1) : tracking.posts[i] # tracking.posts[i + 1]
    /\ tracking.posts = Changes(tracking.seen)
    /\ tracking.previous_title =
          (IF tracking.posts = <<>> THEN <<>> ELSE <<tracking.posts[Len(tracking.posts)]>>)

C38_Witness ==
    /\ tracking.seen = <<"A", "A", "B", "A">>
    /\ tracking.posts = <<"A", "B", "A">>

====
